---- MODULE Spec2Model ----
(***************************************************************************)
(* Model of VTIL-Common/io/formatting.hpp: the type-name prettifier, the   *)
(* thread-local string ring, as_string, fix_parameter, str, hex.           *)
(* Strings are sequences of one-character strings.  Each operation has its *)
(* own specification over the variables it touches; the other variables    *)
(* stay at their initial value.                                            *)
(***************************************************************************)
EXTENDS Integers, Sequences, FiniteSets, TLC

VARIABLES
    tn_pc, tn_in, tn_once, tn_twice,    \* fix_type_name: input, result, result of result
    tls,                                \* thread -> the thread_local ring_buffer[] and index of buffer_string<T>
    calls,                              \* thread -> number of buffer_string calls made on it (history)
    st_pc, st_tl,                       \* str: position, the calling thread's rings
    st_args, st_objs,                   \* str: the arguments, the text each parameter object holds
    st_fixed1, st_fixed2,               \* str: fix_parameter's results in the sizing and the filling pass
    st_n1, st_n2, st_written, st_len,   \* str: size reported, size the fill needs, chars written, length returned
    fp_pc, fp_kind, fp_ref, fp_tl, fp_res,      \* fix_parameter: the argument's type, T a reference, rings, result
    hx_pc, hx_type, hx_value, hx_status, hx_result,   \* hex: integer type, value (nibbles), outcome
    du_pc, du_base, du_count, du_unit, du_divisor, du_numeric,  \* as_string of a duration
    ct_pc, ct_in, ct_out                \* as_string of a container

tnVars == <<tn_pc, tn_in, tn_once, tn_twice>>
ringVars == <<tls, calls>>
strVars == <<st_pc, st_tl, st_args, st_objs, st_fixed1, st_fixed2,
             st_n1, st_n2, st_written, st_len>>
fpVars == <<fp_pc, fp_kind, fp_ref, fp_tl, fp_res>>
hxVars == <<hx_pc, hx_type, hx_value, hx_status, hx_result>>
duVars == <<du_pc, du_base, du_count, du_unit, du_divisor, du_numeric>>
ctVars == <<ct_pc, ct_in, ct_out>>

vars == <<tnVars, ringVars, strVars, fpVars, hxVars, duVars, ctVars>>

-----------------------------------------------------------------------------
(* std::string helpers (0-based positions as in the source)                *)

\* in.starts_with( str )
StartsWith(s, p) == Len(s) >= Len(p) /\ SubSeq(s, 1, Len(p)) = p

\* in.substr( pos )
Substr(s, pos) == SubSeq(s, pos + 1, Len(s))

\* in.substr( 0, n )
SubstrN(s, n) == SubSeq(s, 1, n)

-----------------------------------------------------------------------------
(* impl::fix_type_name                                                     *)

remove_list ==
    << <<"s","t","r","u","c","t"," ">>,
       <<"c","l","a","s","s"," ">>,
       <<"e","n","u","m"," ">>,
       <<"v","t","i","l",":",":">> >>

RECURSIVE strip_after_lt(_, _, _)
\* for ( size_t i = 0; i < in.size(); i++ ) if ( in[i] == '<' && ... ) in = ...
strip_after_lt(in, str, i) ==
    IF i >= Len(in) THEN in
    ELSE IF in[i + 1] = "<" /\ StartsWith(Substr(in, i + 1), str)
         THEN strip_after_lt(SubstrN(in, i + 1) \o Substr(in, i + 1 + Len(str)), str, i + 1)
         ELSE strip_after_lt(in, str, i + 1)

RECURSIVE fix_type_name(_)
RECURSIVE fix_type_name_from(_, _)
\* the body of "for ( const char* str : remove_list )" from entry k on
fix_type_name_from(in, k) ==
    IF k > Len(remove_list) THEN in
    ELSE IF StartsWith(in, remove_list[k])
         THEN fix_type_name(Substr(in, Len(remove_list[k])))
         ELSE fix_type_name_from(strip_after_lt(in, remove_list[k], 0), k + 1)

fix_type_name(in) == fix_type_name_from(in, 1)

\* Name strings: up to MaxPieces pieces, each a strip-list prefix, a bracket
\* or an identifier.
MaxPieces == 4

NamePieces ==
    { remove_list[k] : k \in 1..Len(remove_list) }
        \cup { <<"<">>, <<">">>, <<"a">> }

RECURSIVE NamesOf(_)
NamesOf(n) ==
    IF n = 0 THEN { <<>> }
    ELSE LET shorter == NamesOf(n - 1)
         IN  shorter \cup { s \o p : s \in shorter, p \in NamePieces }

TnInit ==
    /\ tn_pc = "call"
    /\ tn_in \in NamesOf(MaxPieces)
    /\ tn_once = <<>>
    /\ tn_twice = <<>>

TnIdle ==
    /\ tn_pc = "off" /\ tn_in = <<>> /\ tn_once = <<>> /\ tn_twice = <<>>

\* static_type_name / dynamic_type_name prettify a name; the result is
\* prettified again to compare.
Prettify ==
    /\ tn_pc = "call"
    /\ tn_once' = fix_type_name(tn_in)
    /\ tn_twice' = fix_type_name(fix_type_name(tn_in))
    /\ tn_pc' = "done"
    /\ UNCHANGED <<tn_in, ringVars, strVars, fpVars, hxVars, duVars, ctVars>>

-----------------------------------------------------------------------------
(* impl::buffer_string<T>: one ring and one index per thread and per       *)
(* character type T (static thread_local in a function template)           *)

RingSize == 16

CharTypes == {"char", "wchar_t"}

Threads == {"t1", "t2"}

Slots == 0..(RingSize - 1)

\* The thread-local state of a thread that has not called buffer_string:
\* every ring slot an empty string (written by no call), every index 0.
EmptySlot == [call |-> 0, ord |-> 0]

FreshTls ==
    [ring  |-> [T \in CharTypes |-> [i \in Slots |-> EmptySlot]],
     index |-> [T \in CharTypes |-> 0],
     count |-> [T \in CharTypes |-> 0]]

\* An index that is not reduced modulo the ring size.
next_index_nowrap(index) == index + 1

\* index = ++index % std::size( ring_buffer )
next_index(index) == (index + 1) % RingSize

\* A store that leaves the index where it is.
buffer_string_in_place(tl, T, value) ==
    [tl EXCEPT !.ring[T][tl.index[T]] = value, !.count[T] = @ + 1]

\* ref = ring_buffer[ index ]; ref = std::move( value ); index = ...;
\* the returned pointer is ref.data(), named here by the slot.
buffer_string(tl, T, value) ==
    [ring  |-> [tl.ring EXCEPT ![T][tl.index[T]] = value],
     index |-> [tl.index EXCEPT ![T] = next_index(@)],
     count |-> [tl.count EXCEPT ![T] = @ + 1]]

\* Calls explored in all, and wide-string calls explored per thread.
MaxCalls == 19
MaxWide == 1

TotalCalls == calls["t1"] + calls["t2"]

RingIdle == tls = [t \in Threads |-> FreshTls] /\ calls = [t \in Threads |-> 0]

\* Thread t calls buffer_string<T>.  The string moved into the slot is
\* identified by the number of the call on its thread (call) and by its
\* number among the calls of the same instantiation on that thread (ord).
BufferString(t, T) ==
    /\ TotalCalls < MaxCalls
    /\ T = "wchar_t" => tls[t].count["wchar_t"] < MaxWide
    /\ calls' = [calls EXCEPT ![t] = @ + 1]
    /\ tls' = [tls EXCEPT ![t] =
                 buffer_string(@, T, [call |-> calls[t] + 1, ord |-> @.count[T] + 1])]
    /\ UNCHANGED <<tnVars, strVars, fpVars, hxVars, duVars, ctVars>>

RingNext == \E t \in Threads, T \in CharTypes : BufferString(t, T)

-----------------------------------------------------------------------------
(* Types, as the traits the if-constexpr ladders test                      *)

TypeKinds ==
    {"int", "enum", "pointer", "array", "string", "wstring", "c_str", "wc_str",
     "duration", "optional", "iterable", "custom", "opaque"}

\* std::is_fundamental_v || std::is_enum_v || std::is_pointer_v || std::is_array_v
is_passed_as_is(kind) == kind \in {"int", "enum", "pointer", "array", "c_str", "wc_str"}

\* std::is_same_v<base_type, std::string> || std::is_same_v<base_type, std::wstring>
is_basic_string(kind) == kind \in {"string", "wstring"}

\* The character type of a basic string.
char_type(kind) == IF kind = "wstring" THEN "wchar_t" ELSE "char"

\* concept StdStringConvertible / CustomStringConvertible / Iterable
StdStringConvertible(kind) == kind = "int"
CustomStringConvertible(kind) == kind = "custom"
Iterable(kind) == kind \in {"iterable", "string", "wstring"}

\* The return type as_string deduces for a type: std::string from the first
\* branch of the ladder that matches, void when none does ("// void").
as_string_type(kind) ==
    IF StdStringConvertible(kind) THEN "std::string"
    ELSE IF CustomStringConvertible(kind) THEN "std::string"
    ELSE IF kind \in {"string", "c_str"} THEN "std::string"
    ELSE IF kind = "wstring" THEN "std::string"
    ELSE IF kind = "wc_str" THEN "std::string"
    ELSE IF kind = "duration" THEN "std::string"
    ELSE IF kind = "optional" THEN "std::string"
    ELSE IF Iterable(kind) THEN "std::string"
    ELSE "void"

\* A simple requirement "expr;" of a requires-expression asserts that expr is
\* a valid expression; its value is not evaluated.
simple_requirement(expr) == expr.valid

\* concept StringConvertible = requires( T v ) { !std::is_void_v<decltype( as_string( v ) )>; };
\* as_string is an unconstrained template with a deduced return type, so the
\* call and the negation are valid expressions for every T.
StringConvertible(kind) ==
    simple_requirement([valid |-> TRUE, value |-> as_string_type(kind) # "void"])

-----------------------------------------------------------------------------
(* fix_parameter                                                           *)

\* The empty text, and the text a moved-from std::string is left with.
NoText == [src |-> 0, len |-> 0]

\* fix_parameter<T>( T&& x ) for an argument of the given kind, is_reference
\* = std::is_reference_v<T>; tl the thread's rings, obj the text the
\* parameter object x holds, stamp what identifies this call's string in a
\* ring slot.  Yields the branch taken, where the returned pointer points,
\* the text there when fix_parameter returns, and the rings and the
\* parameter object afterwards.
fix_parameter(kind, is_reference, tl, obj, stamp) ==
    IF is_passed_as_is(kind)
    THEN [cat |-> "as_is", where |-> "value", T |-> "none", slot |-> 0,
          text |-> obj, tl |-> tl, obj |-> obj]
    ELSE IF is_basic_string(kind)
    THEN IF is_reference
         THEN [cat |-> "data", where |-> "caller", T |-> "none", slot |-> 0,
               text |-> obj, tl |-> tl, obj |-> obj]
         ELSE [cat |-> "buffer", where |-> "ring", T |-> char_type(kind),
               slot |-> tl.index[char_type(kind)],
               text |-> obj, tl |-> buffer_string(tl, char_type(kind), stamp),
               obj |-> NoText]
    ELSE IF StringConvertible(kind)
    THEN IF as_string_type(kind) = "void"
         THEN [cat |-> "as_string", where |-> "ill_formed", T |-> "none", slot |-> 0,
               text |-> NoText, tl |-> tl, obj |-> obj]
         ELSE [cat |-> "as_string", where |-> "ring", T |-> "char",
               slot |-> tl.index["char"],
               text |-> obj, tl |-> buffer_string(tl, "char", stamp), obj |-> obj]
    ELSE [cat |-> "forced", where |-> "ring", T |-> "char",
          slot |-> tl.index["char"],
          text |-> [src |-> -1, len |-> 3],
          tl |-> buffer_string(tl, "char", stamp), obj |-> obj]

-----------------------------------------------------------------------------
(* str: snprintf( nullptr, 0, fmt, fix_parameter( ps )... ) sizes the      *)
(* result, snprintf( buffer.data(), buffer.size() + 1, fmt,                *)
(* fix_parameter<params>( std::forward<params>( ps ) )... ) fills it       *)

\* An argument: the kind of its type, whether the caller passed an lvalue
\* (params deduced as a reference type), and its text.
ArgKinds ==
    { <<"int", TRUE>>, <<"string", TRUE>>, <<"string", FALSE>>,
      <<"wstring", TRUE>>, <<"wstring", FALSE>>, <<"custom", TRUE>> }

\* Arguments explored per call, and ring allocations made on the thread
\* before the call.
MaxArgs == 17
MaxPrior == 2

\* Argument lists: m arguments of one kind (text of one character), then
\* n - m of another (text of two characters); all of a kind, or all but the
\* first or the last.
SplitPoints(n) == {0, 1, n - 1, n} \cap 0..n

ArgList(n, m, a1, a2) ==
    [i \in 1..n |->
        IF i <= m THEN [kind |-> a1[1], lvalue |-> a1[2], text |-> [src |-> i, len |-> 1]]
                  ELSE [kind |-> a2[1], lvalue |-> a2[2], text |-> [src |-> i, len |-> 2]]]

\* The order in which the arguments of a call are evaluated is unspecified.
EvalOrders == {"left_to_right", "right_to_left"}

EvalOrder(o, n) ==
    IF o = "left_to_right" THEN [k \in 1..n |-> k] ELSE [k \in 1..n |-> n + 1 - k]

\* A sizing pass that forwards its arguments.
sizing_forwards(arg) == arg.lvalue

\* fix_parameter( ps ): ps names the parameter, an lvalue, so T is deduced as
\* an lvalue reference whatever the caller passed.
sizing_is_reference(arg) == TRUE

\* fix_parameter<params>( std::forward<params>( ps ) ): T is params.
filling_is_reference(arg) == arg.lvalue

RECURSIVE fix_pass(_, _, _, _, _)
\* The fix_parameter calls of one pass, in evaluation order, from the k-th on.
\* st = [tl, objs, fixed].
fix_pass(args, order, k, pass, st) ==
    IF k > Len(order) THEN st
    ELSE LET i == order[k]
             is_ref == IF pass = 1 THEN sizing_is_reference(args[i])
                                   ELSE filling_is_reference(args[i])
             r == fix_parameter(args[i].kind, is_ref, st.tl, st.objs[i],
                                [call |-> pass, ord |-> i])
         IN  fix_pass(args, order, k + 1, pass,
                      [tl    |-> r.tl,
                       objs  |-> [st.objs EXCEPT ![i] = r.obj],
                       fixed |-> [st.fixed EXCEPT ![i] =
                                    [cat |-> r.cat, where |-> r.where, T |-> r.T,
                                     slot |-> r.slot, text |-> r.text]]])

\* The pointer pass `pass` got for argument i still points at the string
\* buffer_string stored for it.
PointerValid(tl, fixed, pass, i) ==
    fixed[i].where = "ring" =>
        tl.ring[fixed[i].T][fixed[i].slot] = [call |-> pass, ord |-> i]

\* What reading through a pointer to an overwritten slot yields: the text
\* now in the slot (a short string lives inside the std::string object), or
\* some number of characters of freed memory.
StaleReads == {"reused", "empty", "garbage"}

\* The characters read from freed memory.
stale_length(stale) == IF stale = "empty" THEN 0 ELSE 3

\* The characters the host formatter produces for argument i.
rendered(args, fixed, tl, objs, pass, stale, i) ==
    IF fixed[i].where = "value" THEN args[i].text.len
    ELSE IF fixed[i].where = "caller" THEN objs[i].len
    ELSE IF PointerValid(tl, fixed, pass, i) THEN fixed[i].text.len
    ELSE IF stale = "reused"
         THEN fixed[tl.ring[fixed[i].T][fixed[i].slot].ord].text.len
         ELSE stale_length(stale)

RECURSIVE formatted_length(_, _, _, _, _, _, _, _)
\* The length snprintf reports: the template's literal characters and every
\* argument's rendering.
formatted_length(lit, args, fixed, tl, objs, pass, stale, n) ==
    IF n = 0 THEN lit
    ELSE formatted_length(lit, args, fixed, tl, objs, pass, stale, n - 1)
            + rendered(args, fixed, tl, objs, pass, stale, n)

\* A capacity without the terminator.
fill_capacity_exact(size) == size

\* The size str passes to the filling snprintf: buffer.size() + 1.
fill_capacity(size) == size + 1

\* snprintf( buf, cap, ... ) stores at most cap - 1 characters and a NUL.
snprintf_stored(cap, needed) == IF needed < cap - 1 THEN needed ELSE cap - 1

NotFixed == [cat |-> "none", where |-> "none", T |-> "none", slot |-> 0, text |-> NoText]

RECURSIVE unfixed(_)
\* No argument fixed yet, before a pass.
unfixed(n) == IF n = 0 THEN <<>> ELSE Append(unfixed(n - 1), NotFixed)

RECURSIVE texts_of(_, _)
\* The parameter objects ps... on entry to str: each holds its argument's text.
texts_of(args, n) == IF n = 0 THEN <<>> ELSE Append(texts_of(args, n - 1), args[n].text)

HasStale(tl, fixed, pass) ==
    \E i \in DOMAIN fixed : ~PointerValid(tl, fixed, pass, i)

StrIdle ==
    /\ st_pc = "idle" /\ st_tl = FreshTls
    /\ st_args = <<>> /\ st_objs = <<>> /\ st_fixed1 = <<>> /\ st_fixed2 = <<>>
    /\ st_n1 = 0 /\ st_n2 = 0 /\ st_written = 0 /\ st_len = 0

\* Some earlier format call of the thread stored a string in the ring.
StrPrior ==
    /\ st_pc = "idle"
    /\ st_tl.count["char"] < MaxPrior
    /\ st_tl' = buffer_string(st_tl, "char", [call |-> 0, ord |-> st_tl.count["char"] + 1])
    /\ UNCHANGED <<st_pc, st_args, st_objs, st_fixed1, st_fixed2,
                   st_n1, st_n2, st_written, st_len>>
    /\ UNCHANGED <<tnVars, ringVars, fpVars, hxVars, duVars, ctVars>>

\* One call of str with the literal part of fmt `lit` characters long; o1, o2
\* the evaluation orders of the two passes, r1, r2 what their stale reads
\* yield (if they make any).
Str(lit, args, o1, o2, r1, r2) ==
    /\ st_pc = "idle"
    /\ LET n  == Len(args)
           s0 == [tl |-> st_tl, objs |-> texts_of(args, n), fixed |-> unfixed(n)]
       IN  \E s1 \in {fix_pass(args, EvalOrder(o1, n), 1, 1, s0)} :
           \E s2 \in {fix_pass(args, EvalOrder(o2, n), 1, 2,
                               [tl |-> s1.tl, objs |-> s1.objs, fixed |-> unfixed(n)])} :
             /\ r1 # "reused" => HasStale(s1.tl, s1.fixed, 1)
             /\ r2 # "reused" => HasStale(s2.tl, s2.fixed, 2)
             /\ LET n1 == formatted_length(lit, args, s1.fixed, s1.tl, s1.objs, 1, r1, n)
                    n2 == formatted_length(lit, args, s2.fixed, s2.tl, s2.objs, 2, r2, n)
                IN  /\ st_args' = args
                    /\ st_objs' = s2.objs
                    /\ st_fixed1' = s1.fixed
                    /\ st_fixed2' = s2.fixed
                    /\ st_tl' = s2.tl
                    /\ st_n1' = n1
                    /\ st_n2' = n2
                    /\ st_written' = snprintf_stored(fill_capacity(n1), n2)
                    /\ st_len' = n1
    /\ st_pc' = "returned"
    /\ UNCHANGED <<tnVars, ringVars, fpVars, hxVars, duVars, ctVars>>

\* Templates: one conversion per argument, one character between two
\* ("%s %s %s").
literal_length(n) == IF n = 0 THEN 0 ELSE n - 1

\* A pointer can only go stale when the call has more arguments than the
\* ring has slots.
StaleReadsFor(n) == IF n > RingSize THEN StaleReads ELSE {"reused"}

StrNext ==
    \/ StrPrior
    \/ /\ st_pc = "idle"
       /\ \E n \in 0..MaxArgs : \E m \in SplitPoints(n) : \E a1, a2 \in ArgKinds :
          \E o1, o2 \in EvalOrders : \E r1, r2 \in StaleReadsFor(n) :
          \E args \in {ArgList(n, m, a1, a2)} :
             Str(literal_length(n), args, o1, o2, r1, r2)




\* C1: prettifying a prettified name changes nothing:
\* fix_type_name(fix_type_name(s)) = fix_type_name(s) for every name s.
C1_Idempotent == tn_pc = "done" => tn_twice = tn_once

-----------------------------------------------------------------------------
(* One fix_parameter call on an argument of any type                       *)

FpIdle ==
    /\ fp_pc = "off" /\ fp_kind = "int" /\ fp_ref = TRUE
    /\ fp_tl = FreshTls /\ fp_res = NotFixed

FpInit ==
    /\ fp_pc = "call"
    /\ fp_kind \in TypeKinds
    /\ fp_ref \in BOOLEAN
    /\ fp_tl = FreshTls
    /\ fp_res = NotFixed

\* What identifies the string this call stores, and the argument's text.
FpStamp == [call |-> 1, ord |-> 1]
FpText == [src |-> 1, len |-> 1]

\* Some earlier call of the thread stored a string in the ring.
FpPrior ==
    /\ fp_pc = "call"
    /\ fp_tl.count["char"] < MaxPrior
    /\ fp_tl' = buffer_string(fp_tl, "char", [call |-> 0, ord |-> fp_tl.count["char"] + 1])
    /\ UNCHANGED <<fp_pc, fp_kind, fp_ref, fp_res>>
    /\ UNCHANGED <<tnVars, ringVars, strVars, hxVars, duVars, ctVars>>

FixParameter ==
    /\ fp_pc = "call"
    /\ \E r \in {fix_parameter(fp_kind, fp_ref, fp_tl, FpText, FpStamp)} :
          /\ fp_res' = [cat |-> r.cat, where |-> r.where, T |-> r.T,
                        slot |-> r.slot, text |-> r.text]
          /\ fp_tl' = r.tl
    /\ fp_pc' = "done"
    /\ UNCHANGED <<fp_kind, fp_ref>>
    /\ UNCHANGED <<tnVars, ringVars, strVars, hxVars, duVars, ctVars>>

FpNext == FpPrior \/ FixParameter

-----------------------------------------------------------------------------
(* hex: str( "0x%llx", value ) / str( "-0x%llx", -value ).  Integers are   *)
(* sequences of hexadecimal digits 0..15, most significant first.          *)

\* Hexadecimal digits in an int and in a long long.
IntNibbles == 8
LongLongNibbles == 16

IntegralTypes ==
    { [signed |-> sg, nibbles |-> w] : sg \in BOOLEAN, w \in {2, 4, 8, 16} }

Repeat(d, n) == [i \in 1..n |-> d]

\* The values explored of a type of w digits: top digit, filling, low digit.
ValuesOf(w) ==
    { <<top>> \o Repeat(fill, w - 2) \o <<low>> :
        top \in {0, 7, 8, 15}, fill \in {0, 15}, low \in {0, 1, 15} }

\* value < 0 in a signed type: the top bit is set.
is_negative(v) == v[1] >= 8

\* Conversion of a value of a narrower type to w digits.
widen(v, signed, w) ==
    IF Len(v) >= w THEN v
    ELSE Repeat(IF signed /\ is_negative(v) THEN 15 ELSE 0, w - Len(v)) \o v

RECURSIVE increment(_)
increment(v) ==
    IF v = <<>> THEN <<>>
    ELSE IF v[Len(v)] < 15 THEN SubSeq(v, 1, Len(v) - 1) \o <<v[Len(v)] + 1>>
    ELSE increment(SubSeq(v, 1, Len(v) - 1)) \o <<0>>

\* Two's complement negation in the width of v.
negate(v) == increment([i \in 1..Len(v) |-> 15 - v[i]])

\* The type of the operand after the integral promotions: int, or the type
\* itself when it is as wide as int or wider.
promoted_nibbles(type) == IF type.nibbles < IntNibbles THEN IntNibbles ELSE type.nibbles

\* -value overflows when value is the least value of its promoted type.
negation_overflows(v) == v = <<8>> \o Repeat(0, Len(v) - 1)

\* What signed overflow does: wrap around, or trap.
OverflowOutcomes == {"wraps", "traps"}

\* What "%llx" reads for an argument passed as an int: the int in the low
\* half, and in the high half zeros, ones or whatever was there.
UpperHalves == { Repeat(0, 8), Repeat(15, 8), <<0, 0, 0, 0, 7, 15, 15, 13>> }

HexDigit == <<"0", "1", "2", "3", "4", "5", "6", "7", "8", "9", "a", "b", "c", "d", "e", "f">>

RECURSIVE strip_zeros(_)
strip_zeros(v) ==
    IF Len(v) > 1 /\ v[1] = 0 THEN strip_zeros(Tail(v)) ELSE v

\* "%llx" of a 64-bit value: lowercase digits, no leading zeros.
format_llx(v) == [i \in 1..Len(strip_zeros(v)) |-> HexDigit[strip_zeros(v)[i] + 1]]

HxIdle ==
    /\ hx_pc = "off" /\ hx_type = [signed |-> FALSE, nibbles |-> 2]
    /\ hx_value = <<0, 0>> /\ hx_status = "none" /\ hx_result = <<>>

HxInit ==
    /\ hx_pc = "call"
    /\ hx_type \in IntegralTypes
    /\ hx_value \in ValuesOf(hx_type.nibbles)
    /\ hx_status = "none"
    /\ hx_result = <<>>

\* hex( value ): upper what "%llx" finds above an int, overflow what a
\* signed overflow does.
Hex(upper, overflow) ==
    /\ hx_pc = "call"
    /\ LET minus    == hx_type.signed /\ is_negative(hx_value)
           promoted == widen(hx_value, hx_type.signed, promoted_nibbles(hx_type))
           overflows == minus /\ negation_overflows(promoted)
           operand  == IF minus THEN negate(promoted) ELSE promoted
           read     == IF Len(operand) < LongLongNibbles THEN upper \o operand ELSE operand
           prefix   == IF minus THEN <<"-", "0", "x">> ELSE <<"0", "x">>
       IN  /\ Len(operand) = LongLongNibbles => upper = Repeat(0, 8)
           /\ ~overflows => overflow = "wraps"
           /\ IF overflow = "traps"
              THEN hx_status' = "trapped" /\ hx_result' = <<>>
              ELSE hx_status' = "returned" /\ hx_result' = prefix \o format_llx(read)
    /\ hx_pc' = "done"
    /\ UNCHANGED <<hx_type, hx_value>>
    /\ UNCHANGED <<tnVars, ringVars, strVars, fpVars, duVars, ctVars>>

HxNext == \E upper \in UpperHalves, overflow \in OverflowOutcomes : Hex(upper, overflow)

-----------------------------------------------------------------------------
(* as_string of a std::chrono::duration.  A count that may exceed 32 bits  *)
(* is kept as a product m * scale.                                         *)

\* The tick periods in seconds, as std::ratio<num, den>.
Period ==
    [ns  |-> [num |-> 1,    den |-> 1000000000],
     us  |-> [num |-> 1,    den |-> 1000000],
     ms  |-> [num |-> 1,    den |-> 1000],
     s   |-> [num |-> 1,    den |-> 1],
     min |-> [num |-> 60,   den |-> 1],
     h   |-> [num |-> 3600, den |-> 1]]

BaseTypes == {"ns", "us", "ms", "s", "min", "h"}

RECURSIVE gcd(_, _)
gcd(a, b) == IF b = 0 THEN a ELSE gcd(b, a % b)

\* std::ratio_divide<from, to>, in lowest terms; numerator and denominator
\* each as a product m * scale.
ratio_divide(from, to) ==
    LET g1 == gcd(from.num, to.num)
        g2 == gcd(to.den, from.den)
    IN  [num |-> [m |-> from.num \div g1, scale |-> to.den \div g2],
         den |-> [m |-> to.num \div g1,   scale |-> from.den \div g2]]

\* std::chrono::duration_cast<base_type>( unit{ 1 } ).count(): 1 times the
\* conversion factor, truncated.  In lowest terms the factor between two of
\* these periods is a whole number or one over a whole number.
duration_cast_one(unit, base) ==
    LET cf == ratio_divide(Period[unit], Period[base])
    IN  IF cf.den.m = 1 /\ cf.den.scale = 1 THEN cf.num
        ELSE [m |-> 0, scale |-> 1]

\* static constexpr std::tuple<base_type, const char*, bool> durations[]
durations(base) ==
    << [dur |-> duration_cast_one("h", base),   name |-> "hrs", last |-> FALSE],
       [dur |-> duration_cast_one("min", base), name |-> "min", last |-> FALSE],
       [dur |-> duration_cast_one("s", base),   name |-> "sec", last |-> FALSE],
       [dur |-> duration_cast_one("ms", base),  name |-> "ms",  last |-> FALSE],
       [dur |-> duration_cast_one("ns", base),  name |-> "ns",  last |-> TRUE] >>

\* x >= dur.
duration_greater_or_equal(x, dur) ==
    IF dur.m = 0 THEN x >= 0
    ELSE x >= 0 /\ x \div dur.scale >= dur.m

\* x > dur, for a count x and a count dur = m * scale.
duration_greater(x, dur) ==
    IF dur.m = 0 THEN x > 0
    ELSE /\ x >= 0
         /\ \/ x \div dur.scale > dur.m
            \/ x \div dur.scale = dur.m /\ x % dur.scale > 0

RECURSIVE select_duration(_, _, _)
\* for ( auto& [dur, name, last] : durations ) if ( last || x > dur ) return ...
\* from entry k on: the entry returned for.
select_duration(x, table, k) ==
    IF table[k].last \/ duration_greater(x, table[k].dur) THEN k
    ELSE select_duration(x, table, k + 1)

\* Hundredths nearest to num / den (den > 0), halves to even.
round_hundredths(num, den) ==
    LET a == IF num < 0 THEN -num ELSE num
        q == (a * 100) \div den
        r == (a * 100) % den
        up == 2 * r > den \/ (2 * r = den /\ q % 2 = 1)
        h == IF up THEN q + 1 ELSE q
    IN  IF num < 0 THEN -h ELSE h

\* flt2str( x.count() / float( dur.count() ) ): "%.2f" of the quotient; a
\* division by 0.0f gives an infinity or a NaN.
flt2str_ratio(x, divisor) ==
    IF divisor = 0
    THEN [kind |-> IF x > 0 THEN "inf" ELSE IF x < 0 THEN "-inf" ELSE "nan", hundredths |-> 0]
    ELSE [kind |-> "finite", hundredths |-> round_hundredths(x, divisor)]

\* The counts explored.
DurationCounts ==
    {-1500, -1, 0, 1, 2, 59, 60, 61, 90, 500, 999, 1000, 1001, 1500, 3600, 3601,
     5400, 60000, 60001, 90000, 1000000, 1000001, 1500000, 3600000, 3600001, 5400000}

DuIdle ==
    /\ du_pc = "off" /\ du_base = "ns" /\ du_count = 0
    /\ du_unit = "none" /\ du_divisor = 0 /\ du_numeric = [kind |-> "none", hundredths |-> 0]

DuInit ==
    /\ du_pc = "call"
    /\ du_base \in BaseTypes
    /\ du_count \in DurationCounts
    /\ du_unit = "none" /\ du_divisor = 0 /\ du_numeric = [kind |-> "none", hundredths |-> 0]

\* as_string( x ) for x of type duration<integer, Period[du_base]>.
AsStringDuration ==
    /\ du_pc = "call"
    /\ LET table == durations(du_base)
           k     == select_duration(du_count, table, 1)
           div   == table[k].dur.m * table[k].dur.scale
       IN  /\ du_unit' = table[k].name
           /\ du_divisor' = div
           /\ du_numeric' = flt2str_ratio(du_count, div)
    /\ du_pc' = "done"
    /\ UNCHANGED <<du_base, du_count>>
    /\ UNCHANGED <<tnVars, ringVars, strVars, fpVars, hxVars, ctVars>>

DuNext == AsStringDuration

-----------------------------------------------------------------------------
(* as_string of a container (the Iterable branch)                          *)

\* Values: integers (std::to_string), strings (copied) and containers.
IntValue(n) == [kind |-> "int", n |-> n, s |-> <<>>, items |-> <<>>]
StringValue(str) == [kind |-> "string", n |-> 0, s |-> str, items |-> <<>>]
ContainerValue(items) == [kind |-> "iterable", n |-> 0, s |-> <<>>, items |-> items]

DecDigit == <<"0", "1", "2", "3", "4", "5", "6", "7", "8", "9">>

RECURSIVE decimal(_)
decimal(n) ==
    IF n < 10 THEN <<DecDigit[n + 1]>> ELSE decimal(n \div 10) \o <<DecDigit[(n % 10) + 1]>>

\* std::to_string( int )
to_string(n) == IF n < 0 THEN <<"-">> \o decimal(-n) ELSE decimal(n)

\* A strip that takes text of two characters for no text.
strip_separator_long(items) ==
    IF Len(items) > 2 THEN SubSeq(items, 1, Len(items) - 2) ELSE items

\* if ( !items.empty() ) items.resize( items.size() - 2 );
strip_separator(items) ==
    IF items # <<>> THEN SubSeq(items, 1, Len(items) - 2) ELSE items

RECURSIVE as_string(_)
RECURSIVE append_items(_, _, _)
\* for ( auto& entry : x ) items += as_string( entry ) + ", ";  from entry k on
append_items(items, x, k) ==
    IF k > Len(x) THEN items
    ELSE append_items(items \o as_string(x[k]) \o <<",", " ">>, x, k + 1)

as_string(x) ==
    IF x.kind = "int" THEN to_string(x.n)
    ELSE IF x.kind = "string" THEN x.s
    ELSE <<"{">> \o strip_separator(append_items(<<>>, x.items, 1)) \o <<"}">>

\* Elements per container explored.
MaxElems == 3

Elements ==
    { IntValue(7), IntValue(-12), StringValue(<<>>), StringValue(<<"a">>),
      StringValue(<<",", " ">>), ContainerValue(<<>>),
      ContainerValue(<<IntValue(1), IntValue(2)>>) }

RECURSIVE ItemLists(_)
ItemLists(n) ==
    IF n = 0 THEN { <<>> }
    ELSE LET shorter == ItemLists(n - 1)
         IN  shorter \cup { l \o <<e>> : l \in shorter, e \in Elements }

CtIdle == ct_pc = "off" /\ ct_in = <<>> /\ ct_out = <<>>

CtInit ==
    /\ ct_pc = "call"
    /\ ct_in \in ItemLists(MaxElems)
    /\ ct_out = <<>>

\* as_string( c ) for the container c of the elements ct_in.
AsStringContainer ==
    /\ ct_pc = "call"
    /\ ct_out' = as_string(ContainerValue(ct_in))
    /\ ct_pc' = "done"
    /\ UNCHANGED ct_in
    /\ UNCHANGED <<tnVars, ringVars, strVars, fpVars, hxVars, duVars>>

CtNext == AsStringContainer

-----------------------------------------------------------------------------
(* Specifications: one per operation, the other variables idle             *)

InitTypeName ==
    TnInit /\ RingIdle /\ StrIdle /\ FpIdle /\ HxIdle /\ DuIdle /\ CtIdle

SpecTypeName == InitTypeName /\ [][Prettify]_vars

InitRing ==
    TnIdle /\ RingIdle /\ StrIdle /\ FpIdle /\ HxIdle /\ DuIdle /\ CtIdle

SpecRing == InitRing /\ [][RingNext]_vars

InitStr ==
    TnIdle /\ RingIdle /\ StrIdle /\ FpIdle /\ HxIdle /\ DuIdle /\ CtIdle

SpecStr == InitStr /\ [][StrNext]_vars

InitFixParameter ==
    TnIdle /\ RingIdle /\ StrIdle /\ FpInit /\ HxIdle /\ DuIdle /\ CtIdle

SpecFixParameter == InitFixParameter /\ [][FpNext]_vars

InitHex ==
    TnIdle /\ RingIdle /\ StrIdle /\ FpIdle /\ HxInit /\ DuIdle /\ CtIdle

SpecHex == InitHex /\ [][HxNext]_vars

InitDuration ==
    TnIdle /\ RingIdle /\ StrIdle /\ FpIdle /\ HxIdle /\ DuInit /\ CtIdle

SpecDuration == InitDuration /\ [][DuNext]_vars

InitContainer ==
    TnIdle /\ RingIdle /\ StrIdle /\ FpIdle /\ HxIdle /\ DuIdle /\ CtInit

SpecContainer == InitContainer /\ [][CtNext]_vars

Next == Prettify \/ RingNext \/ StrNext \/ FpNext \/ HxNext \/ DuNext \/ CtNext

-----------------------------------------------------------------------------
(* Claims                                                                  *)

\* The arguments of the call that fix_parameter stored in a ring, in all and
\* per character type.
RingStored == { i \in DOMAIN st_fixed2 : st_fixed2[i].where = "ring" }
RingStoredOf(T) == { i \in RingStored : st_fixed2[i].T = T }

\* C3: after a str call with at most 16 ring-stored arguments, every pointer
\* the filling pass handed to the host formatter points at a ring slot that
\* still holds the string stored for that argument.
C3_FillPointersValid ==
    (st_pc = "returned" /\ Cardinality(RingStored) <= RingSize) =>
        \A i \in DOMAIN st_fixed2 : PointerValid(st_tl, st_fixed2, 2, i)

\* A call with exactly 16 ring-stored arguments (and a scalar), made when the
\* ring index was not 0, so that the ring wrapped during the call.
C3_Witness ==
    /\ st_pc = "returned"
    /\ Len(st_args) = RingSize + 1
    /\ Cardinality(RingStored) = RingSize
    /\ \E i \in RingStored : st_fixed2[i].slot > st_fixed2[1].slot
    /\ \E i \in RingStored : st_fixed2[i].slot = 0
    /\ \A i \in DOMAIN st_fixed2 : PointerValid(st_tl, st_fixed2, 2, i)

SizeExact == st_len = st_n1 /\ st_written = st_n1 /\ st_n2 = st_n1

\* C4 as stated: for every call the returned length is the length the sizing
\* pass reported and the filling pass writes exactly that many characters.
C4_SizeExactAlways == st_pc = "returned" => SizeExact

\* C4 amended: the same, for calls that store at most 16 strings in each
\* thread-local ring.
C4_SizeExactWithinRing ==
    (st_pc = "returned" /\ \A T \in CharTypes : Cardinality(RingStoredOf(T)) <= RingSize)
        => SizeExact

\* A call that fills both rings partly and the narrow ring wholly, with a
\* non-empty result.
C4_Witness ==
    /\ st_pc = "returned"
    /\ Cardinality(RingStoredOf("char")) = RingSize
    /\ Cardinality(RingStoredOf("wchar_t")) = 1
    /\ st_len > RingSize
    /\ SizeExact

SameAllocation(i) ==
    /\ st_fixed1[i].where = st_fixed2[i].where
    /\ st_fixed1[i].T = st_fixed2[i].T

\* C5 as stated: both passes apply the same fix_parameter branch to every
\* argument, allocate the same ring slots for it and yield the same text.
C5_PassesIdentical ==
    st_pc = "returned" =>
        \A i \in DOMAIN st_args :
            /\ st_fixed1[i].cat = st_fixed2[i].cat
            /\ SameAllocation(i)
            /\ st_fixed1[i].text = st_fixed2[i].text

PassedByValue(a) == is_basic_string(a.kind) /\ ~a.lvalue

\* C5 amended: both passes yield the same text for every argument; they apply
\* the same branch and allocate alike for every argument except a string
\* passed by value, for which the sizing pass takes the by-reference branch
\* (the data pointer of the parameter, no ring slot) and the filling pass
\* moves the string into a ring slot.
C5_PassesAgreeOnText ==
    st_pc = "returned" =>
        \A i \in DOMAIN st_args :
            /\ st_fixed1[i].text = st_fixed2[i].text
            /\ st_fixed1[i].text = st_args[i].text
            /\ ~PassedByValue(st_args[i]) =>
                  st_fixed1[i].cat = st_fixed2[i].cat /\ SameAllocation(i)
            /\ PassedByValue(st_args[i]) =>
                  /\ st_fixed1[i].cat = "data" /\ st_fixed1[i].where = "caller"
                  /\ st_fixed2[i].cat = "buffer" /\ st_fixed2[i].where = "ring"
                  /\ st_fixed2[i].T = char_type(st_args[i].kind)

\* A call with a string passed by value, one passed by reference, after the
\* filling pass moved the former out of its parameter.
C5_Witness ==
    /\ st_pc = "returned"
    /\ \E i, j \in DOMAIN st_args :
          /\ PassedByValue(st_args[i]) /\ st_objs[i] = NoText
          /\ st_args[j].kind = "custom"
          /\ st_fixed1[j].slot # st_fixed2[j].slot
          /\ st_fixed1[i].text = st_args[i].text

\* The slot written by call k of thread t still holds that call's string.
HoldsCall(t, k) ==
    \E T \in CharTypes, i \in Slots : tls[t].ring[T][i].call = k

IndexInRange ==
    \A t \in Threads, T \in CharTypes : tls[t].index[T] \in Slots

\* C2 as stated: the slot written by a call survives the next 15
\* buffer_string calls on its thread and is overwritten by the 16th, whatever
\* other threads do; the index stays in 0..15.
C2_AnySixteenthCall ==
    /\ IndexInRange
    /\ \A t \in Threads : \A k \in 1..calls[t] :
           HoldsCall(t, k) <=> calls[t] - k < RingSize

\* C2 amended: the index of every ring stays in 0..15 and is the number of
\* calls of that thread and character type modulo 16; the string of the j-th
\* call of a thread and character type sits in slot (j-1) % 16 as long as
\* fewer than 16 later calls of that thread and character type were made, and
\* is gone once the 16th was made.  Calls of other threads or of the other
\* character type change neither.
C2_SixteenthCallOfSameType ==
    /\ IndexInRange
    /\ \A t \in Threads, T \in CharTypes :
          LET tl == tls[t] IN
          /\ tl.index[T] = tl.count[T] % RingSize
          /\ \A j \in 1..tl.count[T] :
                (tl.ring[T][(j - 1) % RingSize].ord = j) <=> (tl.count[T] - j < RingSize)
          /\ \A i \in Slots : tl.ring[T][i].ord \in 0..tl.count[T]
          /\ \A i \in Slots : tl.ring[T][i].ord > 0 =>
                /\ (tl.ring[T][i].ord - 1) % RingSize = i
                /\ tl.ring[T][i].call \in 1..calls[t]

\* A thread made a call, made 16 more of the same character type (the 17th
\* overwrote the first), a wide-string call came in between, and the other
\* thread called too.
C2_Witness ==
    /\ tls["t1"].count["char"] = RingSize + 1
    /\ tls["t1"].ring["char"][0].ord = RingSize + 1
    /\ tls["t1"].count["wchar_t"] = 1
    /\ tls["t1"].ring["char"][0].call = RingSize + 2
    /\ calls["t2"] = 1

\* C9: for an argument of a type that no as_string branch converts,
\* StringConvertible is false and fix_parameter takes the fallback branch: it
\* stores "[<type>@<address>]" in a ring slot and returns that slot's data
\* pointer, so that every type of argument gets a printable value.
C9_FallbackTaken ==
    fp_pc = "done" =>
        /\ fp_res.where # "ill_formed"
        /\ (~is_passed_as_is(fp_kind) /\ ~is_basic_string(fp_kind)
                /\ as_string_type(fp_kind) = "void") =>
              /\ ~StringConvertible(fp_kind)
              /\ fp_res.cat = "forced"
              /\ fp_res.where = "ring"
              /\ fp_tl.ring["char"][fp_res.slot] = FpStamp

\* The integer a digit sequence of a type denotes: its sign and the digits
\* of its magnitude without leading zeros.
integer_of(type, v) ==
    IF type.signed /\ is_negative(v)
    THEN [negative |-> TRUE, magnitude |-> strip_zeros(negate(v))]
    ELSE [negative |-> FALSE, magnitude |-> strip_zeros(v)]

\* The value of a lowercase hexadecimal digit.
digit_value(c) == (CHOOSE d \in 1..16 : HexDigit[d] = c) - 1

\* Parsing "0x..." / "-0x..." as signed hexadecimal.
parse_hex(text) ==
    LET negative == text # <<>> /\ text[1] = "-"
        digits   == IF negative THEN SubSeq(text, 4, Len(text)) ELSE SubSeq(text, 3, Len(text))
    IN  [negative |-> negative,
         magnitude |-> strip_zeros([i \in 1..Len(digits) |-> digit_value(digits[i])])]

\* C6: for every integral type and every value n of it, the most negative
\* included, hex( n ) returns "0x" + lowercase-hex( n ) for n >= 0 and
\* "-0x" + lowercase-hex( |n| ) for n < 0, and parsing it as signed
\* hexadecimal yields n.
C6_HexRoundTrip ==
    hx_pc = "done" =>
        /\ hx_status = "returned"
        /\ LET n == integer_of(hx_type, hx_value) IN
           /\ hx_result = (IF n.negative THEN <<"-">> ELSE <<>>) \o <<"0", "x">>
                              \o [i \in 1..Len(n.magnitude) |-> HexDigit[n.magnitude[i] + 1]]
           /\ parse_hex(hx_result) = n

\* C7: for a duration of any tick period and any value, the numeric part is
\* the ratio of the value to one whole chosen unit with two decimals, and
\* the divisor of that ratio is never zero.
C7_DivisorNeverZero ==
    du_pc = "done" =>
        /\ du_divisor # 0
        /\ du_numeric.kind = "finite"
        /\ du_numeric.hundredths = round_hundredths(du_count, du_divisor)

\* The periods from finest to coarsest, each a whole multiple of the one
\* before it, and the place in that chain of each unit of the table.
PeriodChain == <<"ns", "us", "ms", "s", "min", "h">>
StepFactor == <<1000, 1000, 1000, 60, 60>>
UnitOrder == <<"hrs", "min", "sec", "ms", "ns">>
UnitPlace == <<6, 5, 4, 3, 1>>
PlaceOf(base) == CHOOSE p \in 1..6 : PeriodChain[p] = base

RECURSIVE Exceeds(_, _)
\* v > 1 * f1 * ... * fn, by dividing instead of multiplying.
Exceeds(v, factors) ==
    IF factors = <<>> THEN v > 1
    ELSE v >= 1 /\ Exceeds(((v - 1) \div Head(factors)) + 1, Tail(factors))

\* v ticks of period base are strictly more than one unit at place u.
MoreThanOne(v, base, u) ==
    IF u < PlaceOf(base) THEN v >= 1
    ELSE Exceeds(v, SubSeq(StepFactor, PlaceOf(base), u - 1))

\* C8: the unit suffix as_string chooses for a duration v is the coarsest
\* of hours, minutes, seconds, milliseconds, nanoseconds of which v is
\* strictly more than one, and nanoseconds when there is none; a value of
\* exactly one unit falls to the next finer unit.
C8_CoarsestUnitExceeded ==
    du_pc = "done" =>
        LET qualifying == { k \in 1..5 : MoreThanOne(du_count, du_base, UnitPlace[k]) }
        IN  du_unit = IF qualifying = {} THEN "ns"
                      ELSE UnitOrder[CHOOSE k \in qualifying : \A j \in qualifying : k <= j]

\* A duration of exactly one second, counted in milliseconds, formatted in
\* milliseconds.
C8_Witness ==
    /\ du_pc = "done"
    /\ du_base = "ms"
    /\ du_count = 1000
    /\ du_unit = "ms"
    /\ du_numeric = [kind |-> "finite", hundredths |-> 100000]

RECURSIVE join(_)
\* The strings of a list with ", " between neighbours.
join(strings) ==
    IF strings = <<>> THEN <<>>
    ELSE IF Len(strings) = 1 THEN strings[1]
    ELSE strings[1] \o <<",", " ">> \o join(Tail(strings))

\* C10: as_string of a container is "{" + the as_string results of its
\* elements in iteration order joined by ", " + "}"; "{}" for an empty
\* container, and also for elements that convert to the empty string.
C10_ContainerLaw ==
    ct_pc = "done" =>
        /\ ct_out = <<"{">> \o join([i \in 1..Len(ct_in) |-> as_string(ct_in[i])]) \o <<"}">>
        /\ ct_in = <<>> => ct_out = <<"{", "}">>

\* A container of two empty strings and an empty container, formatted.
C10_Witness ==
    /\ ct_pc = "done"
    /\ ct_in = <<StringValue(<<>>), StringValue(<<>>), ContainerValue(<<>>)>>
    /\ ct_out = <<"{", ",", " ", ",", " ", "{", "}", "}">>

====
